---- MODULE Spec2Model ----
(***************************************************************************)
(* A model of the heuristic Big-O analyzer of src/wasm/src/lib.rs.         *)
(*                                                                         *)
(* Text.  A Rust &str is modelled as a sequence of one-character strings   *)
(* (all characters of the model are ASCII, so byte length = Len).  A       *)
(* source text is a record [ls, pad]: the text is the lines of ls joined   *)
(* by "\n", followed by pad further "\n" characters.  pad lets the model   *)
(* hold the texts of 100,000 and 500,000 characters that the size checks   *)
(* are about without writing them out.                                     *)
(*                                                                         *)
(* Numbers.  f64 confidences are kept in hundredths (0.85 is 85).          *)
(* The superscripts of "O(n²)", "O(n³)", "O(2ⁿ)" are written ^2, ^3, ^n.   *)
(***************************************************************************)
EXTENDS Integers, Sequences, FiniteSets, TLC

VARIABLES
    code,               \* analyze_complexity's argument `code`
    language,           \* analyze_complexity's argument `language`
    pc,                 \* position of the host's call in analyze_complexity / analyze
    analyzer,           \* the ComplexityAnalyzer built by the call (or NoValue)
    functions,          \* analyze: `functions`, the spans still to be analyzed
    function_results,   \* analyze: `function_results`
    warnings,           \* analyze: `warnings`
    outcome,            \* what analyze_complexity returned (or NoValue)
    calls,              \* how many calls the host has started on this input
    earlier,            \* what the previous call on this input returned
    args,               \* inputs of the pure-function specifications
    ret                 \* their results

vars == <<code, language, pc, analyzer, functions, function_results, warnings,
          outcome, calls, earlier, args, ret>>

NoValue == [tag |-> "none"]

(***************************************************************************)
(* str primitives                                                          *)
(***************************************************************************)
SetMin(S) == CHOOSE m \in S : \A n \in S : m <= n

SetMax(S) == CHOOSE m \in S : \A n \in S : m >= n

IsSpace(c) == c \in {" ", "\t"}

\* number of leading / trailing whitespace characters
LeadingSpaces(s) ==
    LET solid == {i \in 1..Len(s) : ~IsSpace(s[i])}
    IN  IF solid = {} THEN Len(s) ELSE SetMin(solid) - 1

trim_start(s) == SubSeq(s, LeadingSpaces(s) + 1, Len(s))

trim_end(s) ==
    LET solid == {i \in 1..Len(s) : ~IsSpace(s[i])}
    IN  IF solid = {} THEN <<>> ELSE SubSeq(s, 1, SetMax(solid))

trim(s) == trim_end(trim_start(s))

\* p occurs in s at the 1-based position i
MatchAt(s, p, i) ==
    /\ i + Len(p) - 1 <= Len(s)
    /\ \A j \in 1..Len(p) : s[i + j - 1] = p[j]

starts_with(s, p) == MatchAt(s, p, 1)

ends_with(s, p) == Len(p) <= Len(s) /\ MatchAt(s, p, Len(s) - Len(p) + 1)

contains(s, p) == \E i \in 1..(Len(s) - Len(p) + 1) : MatchAt(s, p, i)

\* str::find / str::rfind: the 0-based offset of the first / last match, -1 for None
find(s, p) ==
    LET hits == {i \in 1..(Len(s) - Len(p) + 1) : MatchAt(s, p, i)}
    IN  IF hits = {} THEN -1 ELSE SetMin(hits) - 1

rfind(s, p) ==
    LET hits == {i \in 1..(Len(s) - Len(p) + 1) : MatchAt(s, p, i)}
    IN  IF hits = {} THEN -1 ELSE SetMax(hits) - 1

\* s.matches(p).count(): non-overlapping matches, left to right
RECURSIVE MatchesFrom(_, _, _)
MatchesFrom(s, p, i) ==
    IF i + Len(p) - 1 > Len(s) THEN 0
    ELSE IF MatchAt(s, p, i) THEN 1 + MatchesFrom(s, p, i + Len(p))
    ELSE MatchesFrom(s, p, i + 1)

matches_count(s, p) == MatchesFrom(s, p, 1)

\* s.split_whitespace().last(): the last maximal run of non-space characters
\* (<<>> for None)
last_word(s) ==
    LET t == trim_end(s)
        gaps == {i \in 1..Len(t) : IsSpace(t[i])}
    IN  IF gaps = {} THEN t ELSE SubSeq(t, SetMax(gaps) + 1, Len(t))

UpperCase == <<"A", "B", "C", "D", "E", "F", "G", "H", "I", "J", "K", "L", "M",
               "N", "O", "P", "Q", "R", "S", "T", "U", "V", "W", "X", "Y", "Z">>

LowerCase == <<"a", "b", "c", "d", "e", "f", "g", "h", "i", "j", "k", "l", "m",
               "n", "o", "p", "q", "r", "s", "t", "u", "v", "w", "x", "y", "z">>

lower_char(c) ==
    IF \E k \in 1..26 : UpperCase[k] = c
    THEN LowerCase[CHOOSE k \in 1..26 : UpperCase[k] = c]
    ELSE c

to_lowercase(s) == [i \in 1..Len(s) |-> lower_char(s[i])]

is_alphanumeric(c) ==
    \/ \E k \in 1..26 : UpperCase[k] = c \/ LowerCase[k] = c
    \/ c \in {"0", "1", "2", "3", "4", "5", "6", "7", "8", "9"}

(***************************************************************************)
(* Texts: [ls, pad] is Join(ls, "\n") followed by pad characters "\n".     *)
(* ls is never empty: the empty text is [ls |-> << <<>> >>, pad |-> 0].    *)
(* A list of lines is kept as [ls, blanks]: the lines ls followed by       *)
(* `blanks` empty lines.                                                   *)
(***************************************************************************)
RECURSIVE SumLen(_)
SumLen(ls) == IF ls = <<>> THEN 0 ELSE Len(Head(ls)) + SumLen(Tail(ls))

\* str::len
str_len(t) == SumLen(t.ls) + (Len(t.ls) - 1) + t.pad

\* str::lines: split at "\n"; a final empty piece is not a line
str_lines(t) ==
    IF t.pad > 0 THEN [ls |-> t.ls, blanks |-> t.pad - 1]
    ELSE IF t.ls[Len(t.ls)] = <<>>
         THEN [ls |-> SubSeq(t.ls, 1, Len(t.ls) - 1), blanks |-> 0]
         ELSE [ls |-> t.ls, blanks |-> 0]

NumLines(l) == Len(l.ls) + l.blanks

\* the lines as a plain sequence
Expand(l) == l.ls \o [i \in 1..l.blanks |-> <<>>]

\* lines[a..b] (0-based, b exclusive), for a < b <= NumLines(l)
Slice(l, a, b) ==
    LET k == Len(l.ls)
    IN  [ls     |-> IF a >= k THEN <<>> ELSE SubSeq(l.ls, a + 1, IF b < k THEN b ELSE k),
         blanks |-> IF b <= k THEN 0 ELSE IF a >= k THEN b - a ELSE b - k]

\* lines.join("\n"), for a list of at least one line
JoinLines(l) ==
    IF l.ls = <<>> THEN [ls |-> << <<>> >>, pad |-> l.blanks - 1]
    ELSE [ls |-> l.ls, pad |-> l.blanks]

\* code.contains(p), code.matches(p).count(), code.to_lowercase() for a text;
\* no pattern of the program holds a "\n", so a match lies within one line
text_contains(t, p) == \E i \in 1..Len(t.ls) : contains(t.ls[i], p)

RECURSIVE SumMatches(_, _)
SumMatches(ls, p) ==
    IF ls = <<>> THEN 0 ELSE matches_count(Head(ls), p) + SumMatches(Tail(ls), p)

text_matches_count(t, p) == SumMatches(t.ls, p)

text_to_lowercase(t) == [t EXCEPT !.ls = [i \in 1..Len(t.ls) |-> to_lowercase(t.ls[i])]]

(***************************************************************************)
(* Complexity                                                              *)
(***************************************************************************)
\* enum Complexity, in declaration order
Complexity == <<"Constant", "Logarithmic", "Linear", "Linearithmic", "Quadratic",
                "Cubic", "Polynomial", "Exponential", "Factorial">>

Classes == {Complexity[i] : i \in 1..Len(Complexity)}

to_string(c) ==
    CASE c = "Constant" -> "O(1)"
      [] c = "Logarithmic" -> "O(log n)"
      [] c = "Linear" -> "O(n)"
      [] c = "Linearithmic" -> "O(n log n)"
      [] c = "Quadratic" -> "O(n^2)"
      [] c = "Cubic" -> "O(n^3)"
      [] c = "Polynomial" -> "O(n^k)"
      [] c = "Exponential" -> "O(2^n)"
      [] c = "Factorial" -> "O(n!)"

\* a plausible slip: two classes given the same rank
order_shared_rank(c) ==
    CASE c = "Constant" -> 0
      [] c = "Logarithmic" -> 1
      [] c = "Linear" -> 2
      [] c = "Linearithmic" -> 3
      [] c = "Quadratic" -> 4
      [] c = "Cubic" -> 5
      [] c = "Polynomial" -> 5
      [] c = "Exponential" -> 7
      [] c = "Factorial" -> 8

order(c) ==
    CASE c = "Constant" -> 0
      [] c = "Logarithmic" -> 1
      [] c = "Linear" -> 2
      [] c = "Linearithmic" -> 3
      [] c = "Quadratic" -> 4
      [] c = "Cubic" -> 5
      [] c = "Polynomial" -> 6
      [] c = "Exponential" -> 7
      [] c = "Factorial" -> 8

\* Complexity::max(self, other)
max(self, other) == IF order(self) > order(other) THEN self ELSE other

(***************************************************************************)
(* Limits written in the source                                            *)
(***************************************************************************)
HardLimit == 500000

SoftLimit == 100000

MaxScanLines == 10000

MainScope == 1000

NameLimit == 100

RecursionNameLimit == 50

CallCap == 100

LoopScanLines == 1000

DepthCap == 10

TailWindow == 10

saturating_sub(a, b) == IF a > b THEN a - b ELSE 0

Min2(a, b) == IF a < b THEN a ELSE b

(***************************************************************************)
(* ComplexityAnalyzer::new                                                 *)
(***************************************************************************)
Str_python == <<"p", "y", "t", "h", "o", "n">>

Str_javascript == <<"j", "a", "v", "a", "s", "c", "r", "i", "p", "t">>

Str_typescript == <<"t", "y", "p", "e", "s", "c", "r", "i", "p", "t">>

Str_java == <<"j", "a", "v", "a">>

Str_c == <<"c">>

Str_cpp == <<"c", "p", "p">>

Str_cplusplus == <<"c", "+", "+">>

Str_rust == <<"r", "u", "s", "t">>

Str_main == <<"m", "a", "i", "n">>

Entry(name, c) == [name |-> name, complexity |-> c]

\* the entries of builtin_functions, in the order new() inserts them
BuiltinTable(lang) ==
    LET l == to_lowercase(lang)
    IN  IF l \in {Str_javascript, Str_typescript} THEN
            << Entry(<<"s", "o", "r", "t">>, "Linearithmic"),
               Entry(<<"i", "n", "d", "e", "x", "O", "f">>, "Linear"),
               Entry(<<"i", "n", "c", "l", "u", "d", "e", "s">>, "Linear"),
               Entry(<<"f", "i", "n", "d">>, "Linear"),
               Entry(<<"f", "i", "l", "t", "e", "r">>, "Linear"),
               Entry(<<"m", "a", "p">>, "Linear"),
               Entry(<<"r", "e", "d", "u", "c", "e">>, "Linear") >>
        ELSE IF l = Str_python THEN
            << Entry(<<"s", "o", "r", "t", "e", "d">>, "Linearithmic"),
               Entry(<<"s", "o", "r", "t">>, "Linearithmic"),
               Entry(<<"m", "a", "x">>, "Linear"),
               Entry(<<"m", "i", "n">>, "Linear"),
               Entry(<<"s", "u", "m">>, "Linear") >>
        ELSE IF l = Str_java THEN
            << Entry(<<"A", "r", "r", "a", "y", "s", ".", "s", "o", "r", "t">>, "Linearithmic"),
               Entry(<<"C", "o", "l", "l", "e", "c", "t", "i", "o", "n", "s", ".", "s", "o", "r", "t">>,
                     "Linearithmic") >>
        ELSE <<>>

\* builtin_functions is a std HashMap: the order in which `for ... in
\* &self.builtin_functions` visits it is unspecified, fixed per map (per hasher
\* seed), and each new() seeds its own map.  The model keeps the map as the
\* sequence of its entries in visiting order.  Only the mutual order of the
\* entries whose name occurs in the text can show in a report, so the orders
\* drawn are those that permute these entries among their places and leave
\* every other entry at its place of insertion.
IterationOrders(table, text) ==
    LET M == {i \in 1..Len(table) : text_contains(text, table[i].name)}
        Perms == {f \in [M -> M] : \A i, j \in M : f[i] = f[j] => i = j}
    IN  {[i \in 1..Len(table) |-> IF i \in M THEN table[f[i]] ELSE table[i]] : f \in Perms}

\* the analyzers new(language) can return, for a call whose text is `text`
new(lang, text) ==
    {[language |-> lang, builtin_functions |-> o] : o \in IterationOrders(BuiltinTable(lang), text)}

(***************************************************************************)
(* Function extraction                                                     *)
(***************************************************************************)
create_function_info(name, start, end) ==
    [name |-> name, start_line |-> start, end_line |-> end,
     loop_depth |-> 0, recursive_calls |-> 0, has_binary_search |-> FALSE,
     has_sorting |-> FALSE, has_dynamic_programming |-> FALSE]

Kw_def == <<"d", "e", "f", " ">>

\* Option<String>: <<>> is None (a name that is returned is never empty)
extract_python_function_name(line) ==
    LET paren_pos == find(line, <<"(">>)
        stripped  == trim_start(line)
        after_def == SubSeq(stripped, 5, Len(stripped))
        name_end  == saturating_sub(paren_pos, 4)
        name      == trim(SubSeq(after_def, 1, name_end))
    IN  IF paren_pos = -1 THEN <<>>
        ELSE IF ~starts_with(stripped, Kw_def) THEN <<>>
        ELSE IF name_end > Len(after_def) THEN <<>>
        ELSE IF name # <<>> /\ Len(name) < NameLimit THEN name
        ELSE <<>>

Opened(name, start, indent) == [tag |-> "some", name |-> name, start |-> start, indent |-> indent]

\* a plausible slip: a span cut short by the next def is closed on the def line
\* itself (i + 1) instead of on the line before it (i)
PyStep_closes_on_def(st, i, line) ==
    LET indent_level == Len(line) - Len(trim_start(line))
        cur == st.cur
        fns == st.fns
        nm  == extract_python_function_name(line)
    IN  IF starts_with(trim_start(line), Kw_def) THEN
            [cur |-> IF nm # <<>> THEN Opened(nm, i + 1, indent_level) ELSE NoValue,
             fns |-> IF cur # NoValue
                     THEN Append(fns, create_function_info(cur.name, cur.start, i + 1))
                     ELSE fns]
        ELSE IF cur # NoValue /\ trim(line) # <<>> /\ indent_level <= cur.indent THEN
            [cur |-> NoValue,
             fns |-> Append(fns, create_function_info(cur.name, cur.start, i))]
        ELSE st

\* one turn of the loop of extract_python_functions, at 0-based index i;
\* st = [cur, fns] is (current_function, functions)
PyStep(st, i, line) ==
    LET indent_level == Len(line) - Len(trim_start(line))
        cur == st.cur
        fns == st.fns
        nm  == extract_python_function_name(line)
    IN  IF starts_with(trim_start(line), Kw_def) THEN
            [cur |-> IF nm # <<>> THEN Opened(nm, i + 1, indent_level) ELSE NoValue,
             fns |-> IF cur # NoValue
                     THEN Append(fns, create_function_info(cur.name, cur.start, i))
                     ELSE fns]
        ELSE IF cur # NoValue /\ trim(line) # <<>> /\ indent_level <= cur.indent THEN
            [cur |-> IF starts_with(trim_start(line), Kw_def) /\ nm # <<>>
                     THEN Opened(nm, i + 1, indent_level) ELSE NoValue,
             fns |-> Append(fns, create_function_info(cur.name, cur.start, i))]
        ELSE st

RECURSIVE PyLoop(_, _, _)
PyLoop(lines, i, st) ==
    IF i >= Len(lines) THEN st ELSE PyLoop(lines, i + 1, PyStep(st, i, lines[i + 1]))

extract_python_functions(lines) ==
    LET st == PyLoop(lines, 0, [cur |-> NoValue, fns |-> <<>>])
    IN  IF st.cur # NoValue
        THEN Append(st.fns, create_function_info(st.cur.name, st.cur.start, Len(lines)))
        ELSE st.fns

Kw_function == <<"f", "u", "n", "c", "t", "i", "o", "n">>

all_word_chars(s) == \A i \in 1..Len(s) : is_alphanumeric(s[i]) \/ s[i] = "_"

ReasonableName(name) == name # <<>> /\ Len(name) < NameLimit

extract_js_function_name(line) ==
    LET paren_pos == find(line, <<"(">>)
        decl      == trim(SubSeq(line, 10, paren_pos))
        arrow_pos == find(line, <<" ", "=", ">", " ">>)
        eq_pos    == find(line, <<" ", "=", " ">>)
        before_eq == SubSeq(line, 1, eq_pos)
        space_pos == rfind(before_eq, <<" ">>)
        arrow     == trim(SubSeq(before_eq, space_pos + 2, Len(before_eq)))
        colon_pos == find(line, <<":">>)
        method    == trim(SubSeq(line, 1, colon_pos))
    IN  IF /\ starts_with(line, Kw_function \o <<" ">>)
           /\ paren_pos # -1
           /\ ReasonableName(decl)
        THEN decl
        ELSE IF /\ arrow_pos # -1
                /\ eq_pos # -1
                /\ eq_pos < arrow_pos
                /\ space_pos # -1
                /\ ReasonableName(arrow)
        THEN arrow
        ELSE IF /\ contains(line, <<":">>)
                /\ contains(line, Kw_function)
                /\ ReasonableName(method)
                /\ all_word_chars(method)
        THEN method
        ELSE <<>>

ControlKeywords ==
    { <<"i", "f">>, <<"w", "h", "i", "l", "e">>, <<"f", "o", "r">>,
      <<"s", "w", "i", "t", "c", "h">>, <<"c", "a", "t", "c", "h">> }

extract_c_style_function_name(line) ==
    LET before_paren == SubSeq(line, 1, find(line, <<"(">>))
        last         == last_word(before_paren)
    IN  IF /\ contains(line, <<"(">>)
           /\ (contains(line, <<"{">>) \/ ends_with(line, <<";">>))
           /\ last # <<>>
           /\ last \notin ControlKeywords
           /\ Len(last) < NameLimit
        THEN last
        ELSE <<>>

count_char(s, c) == Cardinality({i \in 1..Len(s) : s[i] = c})

BraceDelta(line) == count_char(line, "{") - count_char(line, "}")

\* one turn of the loop shared by extract_js_functions and
\* extract_c_style_functions; nm is the name found on the trimmed line;
\* st = [cur, brace_count, fns]
BraceStep(st, i, line, nm) ==
    IF nm # <<>> THEN
        [cur |-> [tag |-> "some", name |-> nm, start |-> i + 1],
         brace_count |-> BraceDelta(line),
         fns |-> IF st.cur # NoValue
                 THEN Append(st.fns, create_function_info(st.cur.name, st.cur.start, i))
                 ELSE st.fns]
    ELSE IF st.cur # NoValue THEN
        LET bc == st.brace_count + BraceDelta(line)
        IN  IF bc <= 0
            THEN [cur |-> NoValue, brace_count |-> bc,
                  fns |-> Append(st.fns, create_function_info(st.cur.name, st.cur.start, i + 1))]
            ELSE [st EXCEPT !.brace_count = bc]
    ELSE st

BraceEnd(st, n) ==
    IF st.cur # NoValue
    THEN Append(st.fns, create_function_info(st.cur.name, st.cur.start, n))
    ELSE st.fns

BraceStart == [cur |-> NoValue, brace_count |-> 0, fns |-> <<>>]

RECURSIVE JsLoop(_, _, _)
JsLoop(lines, i, st) ==
    IF i >= Len(lines) THEN st
    ELSE JsLoop(lines, i + 1,
                BraceStep(st, i, lines[i + 1], extract_js_function_name(trim(lines[i + 1]))))

extract_js_functions(lines) == BraceEnd(JsLoop(lines, 0, BraceStart), Len(lines))

RECURSIVE CLoop(_, _, _)
CLoop(lines, i, st) ==
    IF i >= Len(lines) THEN st
    ELSE CLoop(lines, i + 1,
               BraceStep(st, i, lines[i + 1], extract_c_style_function_name(trim(lines[i + 1]))))

extract_c_style_functions(lines) == BraceEnd(CLoop(lines, 0, BraceStart), Len(lines))

extract_generic_functions(lines) == extract_c_style_functions(lines)

\* the match of extract_functions: the spans of the language's own scan
LanguageScan(self, lines) ==
    LET l == to_lowercase(self.language)
    IN  IF l = Str_python THEN extract_python_functions(lines)
        ELSE IF l \in {Str_javascript, Str_typescript} THEN extract_js_functions(lines)
        ELSE IF l \in {Str_java, Str_c, Str_cpp, Str_cplusplus, Str_rust}
             THEN extract_c_style_functions(lines)
        ELSE extract_generic_functions(lines)

\* a plausible slip: the "main" fallback left out
extract_functions_no_fallback(self, text) ==
    LET lines == str_lines(text)
        n     == NumLines(lines)
    IN  IF n > MaxScanLines
        THEN << create_function_info(Str_main, 1, Min2(n, MainScope)) >>
        ELSE LanguageScan(self, Expand(lines))

extract_functions(self, text) ==
    LET lines == str_lines(text)
        n     == NumLines(lines)
        found == LanguageScan(self, Expand(lines))
    IN  IF n > MaxScanLines
        THEN << create_function_info(Str_main, 1, Min2(n, MainScope)) >>
        ELSE IF found = <<>> THEN << create_function_info(Str_main, 1, n) >>
        ELSE found

(***************************************************************************)
(* Signal detectors                                                        *)
(***************************************************************************)
is_loop_start(self, line) ==
    IF to_lowercase(self.language) = Str_python
    THEN starts_with(line, <<"f", "o", "r", " ">>) \/ starts_with(line, <<"w", "h", "i", "l", "e", " ">>)
    ELSE \/ starts_with(line, <<"f", "o", "r", " ">>)
         \/ starts_with(line, <<"f", "o", "r", "(">>)
         \/ starts_with(line, <<"w", "h", "i", "l", "e", " ">>)
         \/ starts_with(line, <<"w", "h", "i", "l", "e", "(">>)
         \/ contains(line, <<"f", "o", "r", " ", "(">>)
         \/ contains(line, <<"w", "h", "i", "l", "e", " ", "(">>)

is_python_dedent(line) ==
    /\ trim(line) # <<>>
    /\ ~starts_with(line, <<" ">>)
    /\ ~starts_with(line, <<"\t">>)
    /\ ~starts_with(trim(line), <<"#">>)

\* one turn of the loop of calculate_loop_depth; st = [max_depth, current_depth]
LoopStep(self, st, line) ==
    LET trimmed == trim(line)
        opened  == IF is_loop_start(self, trimmed) THEN st.current_depth + 1 ELSE st.current_depth
        deepest == IF opened > st.max_depth THEN opened ELSE st.max_depth
    IN  IF trimmed = <<>> \/ starts_with(trimmed, <<"/", "/">>) \/ starts_with(trimmed, <<"#">>)
        THEN st
        ELSE [max_depth |-> deepest,
              current_depth |->
                  IF to_lowercase(self.language) = Str_python
                  THEN (IF is_python_dedent(line) THEN saturating_sub(opened, 1) ELSE opened)
                  ELSE saturating_sub(opened, count_char(line, "}"))]

RECURSIVE LoopFold(_, _, _, _)
LoopFold(self, ls, i, st) ==
    IF i > Len(ls) THEN st ELSE LoopFold(self, ls, i + 1, LoopStep(self, st, ls[i]))

\* code.lines().take(1000) is walked; its empty lines are passed over by the
\* `continue`, so the walk is over the written lines among the first 1000
calculate_loop_depth(self, text) ==
    LET lines == str_lines(text)
        taken == Slice(lines, 0, Min2(NumLines(lines), LoopScanLines))
        st    == LoopFold(self, taken.ls, 1, [max_depth |-> 0, current_depth |-> 0])
    IN  Min2(st.max_depth, DepthCap)

CallPattern(function_name) == function_name \o <<"(">>

count_function_calls(text, function_name) ==
    IF Len(function_name) > RecursionNameLimit THEN 0
    ELSE Min2(text_matches_count(text, CallPattern(function_name)), CallCap)

detect_binary_search(text) ==
    LET has_mid == text_contains(text, <<"m", "i", "d">>) \/ text_contains(text, <<"m", "i", "d", "d", "l", "e">>)
        has_bounds ==
            /\ text_contains(text, <<"l", "e", "f", "t">>) \/ text_contains(text, <<"l", "o", "w">>) \/ text_contains(text, <<"s", "t", "a", "r", "t">>)
            /\ text_contains(text, <<"r", "i", "g", "h", "t">>) \/ text_contains(text, <<"h", "i", "g", "h">>) \/ text_contains(text, <<"e", "n", "d">>)
        has_division ==
            \/ text_contains(text, <<"/", "2">>)
            \/ text_contains(text, <<">", ">", " ", "1">>)
            \/ text_contains(text, <<"d", "i", "v", " ", "2">>)
            \/ text_contains(text, <<"/", "/", " ", "2">>)
    IN  has_mid /\ has_bounds /\ has_division

sorting_patterns ==
    << <<"s", "o", "r", "t", "(">>, <<".", "s", "o", "r", "t", "(">>,
       <<"s", "o", "r", "t", "e", "d", "(">>,
       <<"q", "u", "i", "c", "k", "s", "o", "r", "t">>,
       <<"m", "e", "r", "g", "e", "s", "o", "r", "t">>,
       <<"A", "r", "r", "a", "y", "s", ".", "s", "o", "r", "t">>,
       <<"C", "o", "l", "l", "e", "c", "t", "i", "o", "n", "s", ".", "s", "o", "r", "t">> >>

detect_sorting(text) ==
    \E k \in 1..Len(sorting_patterns) :
        text_contains(text_to_lowercase(text), to_lowercase(sorting_patterns[k]))

dp_indicators ==
    << <<"m", "e", "m", "o">>, <<"c", "a", "c", "h", "e">>, <<"d", "p", "[">>,
       <<"t", "a", "b", "l", "e", "[">>,
       <<"@", "l", "r", "u", "_", "c", "a", "c", "h", "e">>,
       <<"@", "c", "a", "c", "h", "e">> >>

detect_dynamic_programming(text) ==
    \E k \in 1..Len(dp_indicators) :
        text_contains(text_to_lowercase(text), to_lowercase(dp_indicators[k]))

detect_factorial_pattern(text) ==
    \/ text_contains(text, <<"f", "a", "c", "t", "o", "r", "i", "a", "l">>)
    \/ text_contains(text, <<"*">>) /\ text_contains(text, <<"n", "-", "1">>)

is_divide_and_conquer(text) ==
    LET has_division ==
            text_contains(text, <<"m", "i", "d">>) \/ text_contains(text, <<"/", "2">>) \/ text_contains(text, <<">", ">", " ", "1">>)
        has_merge_combine == text_contains(text, <<"m", "e", "r", "g", "e">>) \/ text_contains(text, <<"c", "o", "m", "b", "i", "n", "e">>)
    IN  has_division /\ has_merge_combine

\* the last 10 lines are walked from the end; the first that holds a call
\* decides.  An empty line holds no call.
is_tail_recursive(text, function_name) ==
    LET lines  == str_lines(text)
        n      == NumLines(lines)
        window == Slice(lines, saturating_sub(n, TailWindow), n).ls
        hits   == {i \in 1..Len(window) : contains(trim(window[i]), CallPattern(function_name))}
    IN  IF n = 0 \/ hits = {} THEN FALSE
        ELSE starts_with(trim(window[SetMax(hits)]), <<"r", "e", "t", "u", "r", "n", " ">>)

is_fibonacci_like(text, function_name) ==
    LET call_count == text_matches_count(text, CallPattern(function_name))
    IN  /\ call_count >= 2
        /\ text_contains(text, <<"n", "-", "1">>) \/ text_contains(text, <<"n", " ", "-", " ", "1">>)
        /\ text_contains(text, <<"n", "-", "2">>) \/ text_contains(text, <<"n", " ", "-", " ", "2">>)

(***************************************************************************)
(* analyze_function                                                        *)
(***************************************************************************)
\* An entry of `details`: a fixed message, or format!(text, arg) kept as the
\* format string with its argument
Note(text) == [text |-> text, arg |-> <<>>]

Format(text, arg) == [text |-> text, arg |-> arg]

Digits == <<"0", "1", "2", "3", "4", "5", "6", "7", "8", "9">>

\* the decimal digits of n, as format!("{}", n) writes them
RECURSIVE decimal(_)
decimal(n) == IF n < 10 THEN <<Digits[n + 1]>> ELSE Append(decimal(n \div 10), Digits[(n % 10) + 1])

\* the loop over &self.builtin_functions, from its k-th entry on;
\* r = [complexity, confidence, details]
RECURSIVE BuiltinScan(_, _, _, _)
BuiltinScan(self, body, k, r) ==
    IF k > Len(self.builtin_functions) THEN r
    ELSE LET e == self.builtin_functions[k]
         IN  BuiltinScan(self, body, k + 1,
                 IF text_contains(body, e.name)
                 THEN [r EXCEPT !.complexity = max(r.complexity, e.complexity),
                                !.details = Append(r.details, Format("Built-in function '{}' detected", e.name))]
                 ELSE r)

\* the detector results analyze_function reads
Signals(self, body, name) ==
    [loop_depth              |-> calculate_loop_depth(self, body),
     recursive_calls         |-> count_function_calls(body, name),
     has_binary_search       |-> detect_binary_search(body),
     has_sorting             |-> detect_sorting(body),
     has_dynamic_programming |-> detect_dynamic_programming(body),
     tail_recursive          |-> is_tail_recursive(body, name),
     divide_and_conquer      |-> is_divide_and_conquer(body),
     fibonacci_like          |-> is_fibonacci_like(body, name),
     factorial_pattern       |-> detect_factorial_pattern(body)]

Raise(r, c, detail, conf) ==
    [complexity |-> max(r.complexity, c), confidence |-> conf, details |-> Append(r.details, detail)]

\* a plausible slip: the binary-search override placed in the arm of depth 2
LoopBranch_override_at_two(r, sig) ==
    LET d == sig.loop_depth
    IN  IF d = 0 THEN
            IF sig.recursive_calls = 0
            THEN [r EXCEPT !.details = Append(r.details, Note("No loops or recursion detected"))]
            ELSE r
        ELSE IF d = 1 THEN Raise(r, "Linear", Note("Single loop detected"), r.confidence)
        ELSE IF d = 2 THEN
            LET j == Raise(r, "Quadratic", Note("Nested loops detected (depth: 2)"), 85)
            IN  IF sig.has_binary_search
                THEN [complexity |-> "Logarithmic", confidence |-> 90,
                      details |-> Append(j.details, Note("Binary search pattern overrides linear complexity"))]
                ELSE j
        ELSE IF d = 3 THEN Raise(r, "Cubic", Note("Triple nested loops detected"), 85)
        ELSE Raise(r, "Polynomial", Format("Deeply nested loops (depth: {})", decimal(d)), 70)

\* match loop_depth { ... }
LoopBranch(r, sig) ==
    LET d == sig.loop_depth
    IN  IF d = 0 THEN
            IF sig.recursive_calls = 0
            THEN [r EXCEPT !.details = Append(r.details, Note("No loops or recursion detected"))]
            ELSE r
        ELSE IF d = 1 THEN
            LET j == Raise(r, "Linear", Note("Single loop detected"), r.confidence)
            IN  IF sig.has_binary_search
                THEN [complexity |-> "Logarithmic", confidence |-> 90,
                      details |-> Append(j.details, Note("Binary search pattern overrides linear complexity"))]
                ELSE j
        ELSE IF d = 2 THEN Raise(r, "Quadratic", Note("Nested loops detected (depth: 2)"), 85)
        ELSE IF d = 3 THEN Raise(r, "Cubic", Note("Triple nested loops detected"), 85)
        ELSE Raise(r, "Polynomial", Format("Deeply nested loops (depth: {})", decimal(d)), 70)

\* if recursive_calls > 0 { ... }
RecursionBranch(r, sig) ==
    IF sig.recursive_calls > 0 THEN
        IF sig.tail_recursive THEN Raise(r, "Linear", Note("Tail recursion detected"), 80)
        ELSE IF sig.divide_and_conquer
             THEN Raise(r, "Linearithmic", Note("Divide and conquer recursion detected"), 85)
        ELSE IF sig.recursive_calls > 1 THEN
             IF sig.fibonacci_like
             THEN Raise(r, "Exponential", Note("Exponential recursion (fibonacci-like) detected"), 90)
             ELSE Raise(r, "Exponential", Note("Multiple recursive calls detected"), 70)
        ELSE Raise(r, "Linear", Note("Simple recursion detected"), 70)
    ELSE r

DpStep(r, sig) ==
    IF sig.has_dynamic_programming
    THEN [r EXCEPT !.details = Append(r.details, Note("Dynamic programming pattern detected - may reduce complexity")),
                   !.confidence = Min2(r.confidence, 60)]
    ELSE r

SortStep(r, sig) ==
    IF sig.has_sorting
    THEN Raise(r, "Linearithmic", Note("Sorting operation detected"), r.confidence)
    ELSE r

FactorialStep(r, sig) ==
    IF sig.factorial_pattern
    THEN Raise(r, "Factorial", Note("Factorial complexity pattern detected"), 80)
    ELSE r

\* analyze_function from the loop-depth match to the end: r is the running
\* (complexity, confidence, details) after the builtin scan
Classify(r, sig) ==
    FactorialStep(SortStep(DpStep(RecursionBranch(LoopBranch(r, sig), sig), sig), sig), sig)

ComplexityResult(r, func) ==
    [complexity |-> to_string(r.complexity), confidence |-> r.confidence,
     details |-> r.details, line_start |-> func.start_line, line_end |-> func.end_line]

Fresh == [complexity |-> "Constant", confidence |-> 90, details |-> <<>>]

\* the slice of the text analyze_function works on (for a span that has one)
FunctionBody(func, full_code) ==
    LET lines == str_lines(full_code)
    IN  JoinLines(Slice(lines, saturating_sub(func.start_line, 1),
                        Min2(func.end_line, NumLines(lines))))

HasBody(func, full_code) ==
    LET n         == NumLines(str_lines(full_code))
        start_idx == saturating_sub(func.start_line, 1)
        end_idx   == Min2(func.end_line, n)
    IN  ~(start_idx >= n \/ start_idx >= end_idx)

analyze_function(self, func, full_code) ==
    IF ~HasBody(func, full_code)
    THEN ComplexityResult([Fresh EXCEPT !.details = <<Note("Unable to analyze function body")>>], func)
    ELSE LET function_body == FunctionBody(func, full_code)
         IN  ComplexityResult(
                 Classify(BuiltinScan(self, function_body, 1, Fresh),
                          Signals(self, function_body, func.name)),
                 func)

FunctionAnalysis(func, analysis) ==
    [function |-> func.name, complexity |-> analysis.complexity,
     confidence |-> analysis.confidence, details |-> analysis.details,
     line_start |-> analysis.line_start, line_end |-> analysis.line_end]

(***************************************************************************)
(* get_overall_complexity                                                  *)
(***************************************************************************)
complexity_order ==
    <<"O(n!)", "O(2^n)", "O(n^k)", "O(n^3)", "O(n^2)", "O(n log n)", "O(n)", "O(log n)", "O(1)">>

\* a plausible slip: the table scanned from the best class to the worst
get_overall_complexity_best_first(fs) ==
    LET present == {k \in 1..Len(complexity_order) :
                        \E i \in 1..Len(fs) : fs[i].complexity = complexity_order[k]}
    IN  IF fs = <<>> \/ present = {} THEN "O(1)" ELSE complexity_order[SetMax(present)]

get_overall_complexity(fs) ==
    LET present == {k \in 1..Len(complexity_order) :
                        \E i \in 1..Len(fs) : fs[i].complexity = complexity_order[k]}
    IN  IF fs = <<>> \/ present = {} THEN "O(1)" ELSE complexity_order[SetMin(present)]

(***************************************************************************)
(* The texts the host passes.  Lines are written out character by          *)
(* character; the comment above each gives the line.                       *)
(***************************************************************************)
\* def f(n):
Line_A1 ==
    <<"d", "e", "f", " ", "f", "(", "n", ")", ":">>

\*     for i in range(n):
Line_A2 ==
    <<" ", " ", " ", " ", "f", "o", "r", " ", "i", " ", "i", "n", " ", "r", "a", "n", "g",
      "e", "(", "n", ")", ":">>

\*         for j in range(n):
Line_A3 ==
    <<" ", " ", " ", " ", " ", " ", " ", " ", "f", "o", "r", " ", "j", " ", "i", "n", " ",
      "r", "a", "n", "g", "e", "(", "n", ")", ":">>

\*             pass
Line_A4 ==
    <<" ", " ", " ", " ", " ", " ", " ", " ", " ", " ", " ", " ", "p", "a", "s", "s">>

\* function bsearch(arr, x) {
Line_B1 ==
    <<"f", "u", "n", "c", "t", "i", "o", "n", " ", "b", "s", "e", "a", "r", "c", "h", "(",
      "a", "r", "r", ",", " ", "x", ")", " ", "{">>

\*   let left = 0, right = arr.length;
Line_B2 ==
    <<" ", " ", "l", "e", "t", " ", "l", "e", "f", "t", " ", "=", " ", "0", ",", " ", "r",
      "i", "g", "h", "t", " ", "=", " ", "a", "r", "r", ".", "l", "e", "n", "g", "t", "h",
      ";">>

\*   while (left < right) {
Line_B3 ==
    <<" ", " ", "w", "h", "i", "l", "e", " ", "(", "l", "e", "f", "t", " ", "<", " ", "r",
      "i", "g", "h", "t", ")", " ", "{">>

\*     let mid = (left + right) / 2;
Line_B4 ==
    <<" ", " ", " ", " ", "l", "e", "t", " ", "m", "i", "d", " ", "=", " ", "(", "l", "e",
      "f", "t", " ", "+", " ", "r", "i", "g", "h", "t", ")", " ", "/", " ", "2", ";">>

\*     let mid = (left + right) >> 1;
Line_B4s ==
    <<" ", " ", " ", " ", "l", "e", "t", " ", "m", "i", "d", " ", "=", " ", "(", "l", "e",
      "f", "t", " ", "+", " ", "r", "i", "g", "h", "t", ")", " ", ">", ">", " ", "1", ";">>

\*   }
Line_B5 ==
    <<" ", " ", "}">>

\* }
Line_B6 ==
    <<"}">>

\* def fib(n):
Line_C1 ==
    <<"d", "e", "f", " ", "f", "i", "b", "(", "n", ")", ":">>

\*     if n < 2: return n
Line_C2 ==
    <<" ", " ", " ", " ", "i", "f", " ", "n", " ", "<", " ", "2", ":", " ", "r", "e", "t",
      "u", "r", "n", " ", "n">>

\*     return fib(n-1) + fib(n-2)
Line_C3 ==
    <<" ", " ", " ", " ", "r", "e", "t", "u", "r", "n", " ", "f", "i", "b", "(", "n", "-",
      "1", ")", " ", "+", " ", "f", "i", "b", "(", "n", "-", "2", ")">>

\* x = 1
Line_E1 ==
    <<"x", " ", "=", " ", "1">>

\* y = x + 1
Line_E2 ==
    <<"y", " ", "=", " ", "x", " ", "+", " ", "1">>

\* def g(a):
Line_S1 ==
    <<"d", "e", "f", " ", "g", "(", "a", ")", ":">>

\*     return sorted(a)
Line_S2 ==
    <<" ", " ", " ", " ", "r", "e", "t", "u", "r", "n", " ", "s", "o", "r", "t", "e", "d",
      "(", "a", ")">>

\* function h(a) {
Line_J1 ==
    <<"f", "u", "n", "c", "t", "i", "o", "n", " ", "h", "(", "a", ")", " ", "{">>

\*   return a.filter(p).map(q);
Line_J2 ==
    <<" ", " ", "r", "e", "t", "u", "r", "n", " ", "a", ".", "f", "i", "l", "t", "e", "r",
      "(", "p", ")", ".", "m", "a", "p", "(", "q", ")", ";">>

\*     return f(n-1) * n
Line_P_call ==
    <<" ", " ", " ", " ", "r", "e", "t", "u", "r", "n", " ", "f", "(", "n", "-", "1", ")",
      " ", "*", " ", "n">>

\*   for (i = 0; i < n; i++) {
Line_P_loop ==
    <<" ", " ", "f", "o", "r", " ", "(", "i", " ", "=", " ", "0", ";", " ", "i", " ", "<",
      " ", "n", ";", " ", "i", "+", "+", ")", " ", "{">>

\* x = sorted(a)
Line_P_sorted ==
    <<"x", " ", "=", " ", "s", "o", "r", "t", "e", "d", "(", "a", ")">>

\* def d(n):
Line_D1 ==
    <<"d", "e", "f", " ", "d", "(", "n", ")", ":">>

\*             for k in range(n):
Line_D4 ==
    <<" ", " ", " ", " ", " ", " ", " ", " ", " ", " ", " ", " ", "f", "o", "r", " ", "k",
      " ", "i", "n", " ", "r", "a", "n", "g", "e", "(", "n", ")", ":">>

\*                 for m in range(n):
Line_D5 ==
    <<" ", " ", " ", " ", " ", " ", " ", " ", " ", " ", " ", " ", " ", " ", " ", " ", "f",
      "o", "r", " ", "m", " ", "i", "n", " ", "r", "a", "n", "g", "e", "(", "n", ")", ":">>

\*                     pass
Line_D6 ==
    <<" ", " ", " ", " ", " ", " ", " ", " ", " ", " ", " ", " ", " ", " ", " ", " ", " ",
      " ", " ", " ", "p", "a", "s", "s">>

\* def t(n):
Line_M1 ==
    <<"d", "e", "f", " ", "t", "(", "n", ")", ":">>

\*     a = t(n-1)
Line_M2 ==
    <<" ", " ", " ", " ", "a", " ", "=", " ", "t", "(", "n", "-", "1", ")">>

\*     b = t(n-3)
Line_M3 ==
    <<" ", " ", " ", " ", "b", " ", "=", " ", "t", "(", "n", "-", "3", ")">>

\*     c = a + b
Line_M4 ==
    <<" ", " ", " ", " ", "c", " ", "=", " ", "a", " ", "+", " ", "b">>

\* function one() { return 1; }
Line_O1 ==
    <<"f", "u", "n", "c", "t", "i", "o", "n", " ", "o", "n", "e", "(", ")", " ", "{", " ",
      "r", "e", "t", "u", "r", "n", " ", "1", ";", " ", "}">>

\* class A:
Line_K1 ==
    <<"c", "l", "a", "s", "s", " ", "A", ":">>

\*     def m(self):
Line_K2 ==
    <<" ", " ", " ", " ", "d", "e", "f", " ", "m", "(", "s", "e", "l", "f", ")", ":">>

\*         return 1
Line_K3 ==
    <<" ", " ", " ", " ", " ", " ", " ", " ", "r", "e", "t", "u", "r", "n", " ", "1">>

Blank == <<>>

\* Scenario A of the specification
ScenarioA == <<Line_A1, Line_A2, Line_A3, Line_A4>>

\* Scenario B of the specification
ScenarioB == <<Line_B1, Line_B2, Line_B3, Line_B4, Line_B5, Line_B6>>

\* Scenario B with the halving written `>> 1`, which detect_binary_search knows
ScenarioBShift == <<Line_B1, Line_B2, Line_B3, Line_B4s, Line_B5, Line_B6>>

\* Scenario C of the specification
ScenarioC == <<Line_C1, Line_C2, Line_C3>>

\* Scenario E: a bare expression list
ScenarioE == <<Line_E1, Line_E2>>

\* functions that call builtins of the python and javascript tables
SortedCall == <<Line_S1, Line_S2>>

FilterMap == <<Line_J1, Line_J2, Line_B6>>

\* python functions with three and with four nested loops
TripleLoop == <<Line_D1, Line_A2, Line_A3, Line_D4, Line_A4>>

DeepLoop == <<Line_D1, Line_A2, Line_A3, Line_D4, Line_D5, Line_D6>>

\* a python function that calls itself twice, not in the manner of fibonacci
TwoCalls == <<Line_M1, Line_M2, Line_M3, Line_M4>>

\* a function whose braces close on its own line, followed by other lines
OneLiner == <<Line_O1, Line_E1, Line_E2>>

\* two nested loops, a line at the left margin, two nested loops again
LoopsAfterDedent == <<Line_A2, Line_A3, Line_E1, Line_A2, Line_A3>>

\* a python method: a def indented inside a class
Method == <<Line_K1, Line_K2, Line_K3>>

\* the lines the generated texts are made of
LinePool == {Line_A1, Line_P_call, Line_J1, Line_P_loop, Line_B6, Line_P_sorted, Blank}

\* the longest generated text, in lines
MaxLines == 2

RECURSIVE SeqsUpTo(_, _)
SeqsUpTo(S, n) ==
    IF n = 0 THEN {<<>>}
    ELSE LET shorter == SeqsUpTo(S, n - 1)
         IN  shorter \cup {Append(q, x) : q \in {r \in shorter : Len(r) = n - 1}, x \in S}

Written(ls) == [ls |-> ls, pad |-> 0]

\* the text of ls followed by as many "\n" as bring it to `size` characters
PaddedTo(ls, size) == [ls |-> ls, pad |-> size - str_len(Written(ls))]

EmptyText == Written(<< <<>> >>)

CorpusTexts ==
    {Written(t) : t \in {ScenarioA, ScenarioB, ScenarioBShift, ScenarioC, ScenarioE,
                         SortedCall, FilterMap, TripleLoop, DeepLoop, TwoCalls,
                         ScenarioA \o SortedCall, ScenarioC \o ScenarioA,
                         ScenarioC \o TwoCalls \o TripleLoop,
                         SortedCall \o DeepLoop \o ScenarioA,
                         OneLiner, LoopsAfterDedent, Method, Method \o ScenarioC}}

GeneratedTexts == {Written(t) : t \in SeqsUpTo(LinePool, MaxLines) \ {<<>>}}

\* texts at and around the two size limits
LargeTexts ==
    {PaddedTo(t, size) : t \in {ScenarioA, ScenarioE},
                         size \in {SoftLimit, SoftLimit + 1, SoftLimit + 50000,
                                   HardLimit, HardLimit + 1, HardLimit + 100000}}

Texts == CorpusTexts \cup GeneratedTexts \cup LargeTexts \cup {EmptyText, PaddedTo(<< <<>> >>, 1)}

Languages ==
    {Str_python, <<"P", "y", "t", "h", "o", "n">>, Str_javascript, Str_java, <<"g", "o">>}

\* how many times the host calls analyze_complexity on one input
MaxCalls == 2

(***************************************************************************)
(* The host's calls of analyze_complexity                                  *)
(***************************************************************************)
Init ==
    /\ code \in Texts
    /\ language \in Languages
    /\ pc = "called"
    /\ analyzer = NoValue
    /\ functions = <<>>
    /\ function_results = <<>>
    /\ warnings = <<>>
    /\ outcome = NoValue
    /\ calls = 1
    /\ earlier = NoValue
    /\ args = NoValue
    /\ ret = NoValue

Err(message) == [tag |-> "Err", message |-> message]

AnalysisResult(overall, fs, lang, ws) ==
    [tag |-> "Ok", overall |-> overall, functions |-> fs, language |-> lang, warnings |-> ws]

\* a plausible slip: the hard limit tested with >=
Validate_at_limit ==
    /\ pc = "called"
    /\ IF str_len(code) = 0
       THEN pc' = "returned" /\ outcome' = Err("Empty code provided")
       ELSE IF str_len(code) >= HardLimit
       THEN pc' = "returned" /\ outcome' = Err("Code too large to analyze")
       ELSE pc' = "validated" /\ outcome' = outcome
    /\ UNCHANGED <<code, language, analyzer, functions, function_results, warnings,
                   calls, earlier, args, ret>>

\* analyze_complexity, up to the construction of the analyzer
Validate ==
    /\ pc = "called"
    /\ IF str_len(code) = 0
       THEN pc' = "returned" /\ outcome' = Err("Empty code provided")
       ELSE IF str_len(code) > HardLimit
       THEN pc' = "returned" /\ outcome' = Err("Code too large to analyze")
       ELSE pc' = "validated" /\ outcome' = outcome
    /\ UNCHANGED <<code, language, analyzer, functions, function_results, warnings,
                   calls, earlier, args, ret>>

\* let analyzer = ComplexityAnalyzer::new(language)
Construct ==
    /\ pc = "validated"
    /\ analyzer' \in new(language, code)
    /\ pc' = "constructed"
    /\ UNCHANGED <<code, language, functions, function_results, warnings, outcome,
                   calls, earlier, args, ret>>

\* analyze: the early return for a text over 100,000 characters
AnalyzeTooLarge ==
    /\ pc = "constructed"
    /\ str_len(code) > SoftLimit
    /\ outcome' = AnalysisResult("O(1)", <<>>, analyzer.language,
                                 <<"Code too large to analyze safely">>)
    /\ pc' = "returned"
    /\ UNCHANGED <<code, language, analyzer, functions, function_results, warnings,
                   calls, earlier, args, ret>>

\* analyze: extract_functions and the is_empty test on its result
Extract ==
    /\ pc = "constructed"
    /\ ~(str_len(code) > SoftLimit)
    /\ functions' = extract_functions(analyzer, code)
    /\ function_results' = <<>>
    /\ warnings' = IF functions' = <<>>
                   THEN <<"No functions detected. Analyzing entire code as single block.">>
                   ELSE <<>>
    /\ pc' = "analyzing"
    /\ UNCHANGED <<code, language, analyzer, outcome, calls, earlier, args, ret>>

\* analyze: one turn of `for func in functions`
AnalyzeFunction ==
    /\ pc = "analyzing"
    /\ Len(function_results) < Len(functions)
    /\ LET func == functions[Len(function_results) + 1]
       IN  function_results' =
               Append(function_results, FunctionAnalysis(func, analyze_function(analyzer, func, code)))
    /\ UNCHANGED <<code, language, pc, analyzer, functions, warnings, outcome,
                   calls, earlier, args, ret>>

\* analyze: get_overall_complexity and the report; analyze_complexity returns it
Finish ==
    /\ pc = "analyzing"
    /\ Len(function_results) = Len(functions)
    /\ outcome' = AnalysisResult(get_overall_complexity(function_results), function_results,
                                 analyzer.language, warnings)
    /\ pc' = "returned"
    /\ UNCHANGED <<code, language, analyzer, functions, function_results, warnings,
                   calls, earlier, args, ret>>

\* the host calls analyze_complexity again with the same arguments; nothing
\* of the earlier call is kept by the program, the model keeps what it returned
CallAgain ==
    /\ pc = "returned"
    /\ calls < MaxCalls
    /\ calls' = calls + 1
    /\ earlier' = outcome
    /\ pc' = "called"
    /\ analyzer' = NoValue
    /\ functions' = <<>>
    /\ function_results' = <<>>
    /\ warnings' = <<>>
    /\ outcome' = NoValue
    /\ UNCHANGED <<code, language, args, ret>>

Next ==
    \/ Validate
    \/ Construct
    \/ AnalyzeTooLarge
    \/ Extract
    \/ AnalyzeFunction
    \/ Finish
    \/ CallAgain

Spec == Init /\ [][Next]_vars

(***************************************************************************)
(* Complexity::max over every triple of classes                            *)
(***************************************************************************)
\* no call of analyze_complexity is under way
NoCall ==
    /\ code = EmptyText
    /\ language = <<>>
    /\ pc = "idle"
    /\ analyzer = NoValue
    /\ functions = <<>>
    /\ function_results = <<>>
    /\ warnings = <<>>
    /\ outcome = NoValue
    /\ calls = 0
    /\ earlier = NoValue

callVars == <<code, language, pc, analyzer, functions, function_results, warnings,
              outcome, calls, earlier>>

InitLattice ==
    /\ NoCall
    /\ args \in [tag : {"classes"}, a : Classes, b : Classes, c : Classes]
    /\ ret = NoValue

Combine ==
    /\ args.tag = "classes"
    /\ ret = NoValue
    /\ ret' = [tag  |-> "combined",
               ab   |-> max(args.a, args.b),
               ba   |-> max(args.b, args.a),
               ab_c |-> max(max(args.a, args.b), args.c),
               a_bc |-> max(args.a, max(args.b, args.c)),
               aa   |-> max(args.a, args.a)]
    /\ UNCHANGED <<callVars, args>>

NextLattice == Combine

SpecLattice == InitLattice /\ [][NextLattice]_vars

(***************************************************************************)
(* analyze_function from the loop-depth match on, over the detector        *)
(* results, one loop level added at a time                                 *)
(***************************************************************************)
\* the classes the builtin scan can leave in `complexity`
ScanClasses ==
    {"Constant"} \cup
    UNION {{BuiltinTable(l)[i].complexity : i \in 1..Len(BuiltinTable(l))} : l \in Languages}

\* the largest self-call count drawn
MaxRecursiveCalls == 2

InitLoopDepth ==
    /\ NoCall
    /\ args \in [tag  : {"signals"},
                 scan : ScanClasses,
                 sig  : [loop_depth              : {0},
                         recursive_calls         : 0..MaxRecursiveCalls,
                         has_binary_search       : BOOLEAN,
                         has_sorting             : BOOLEAN,
                         has_dynamic_programming : BOOLEAN,
                         tail_recursive          : BOOLEAN,
                         divide_and_conquer      : BOOLEAN,
                         fibonacci_like          : BOOLEAN,
                         factorial_pattern       : BOOLEAN]]
    /\ ret = NoValue

\* the function is analyzed at its present loop depth
ClassifyAtDepth ==
    /\ args.tag = "signals"
    /\ IF ret = NoValue THEN TRUE ELSE ret.depth # args.sig.loop_depth
    /\ ret' = [tag    |-> "classified",
               depth  |-> args.sig.loop_depth,
               now    |-> Classify([Fresh EXCEPT !.complexity = args.scan], args.sig),
               before |-> IF ret = NoValue THEN NoValue ELSE ret.now]
    /\ UNCHANGED <<callVars, args>>

\* the same function with one more nested loop level, every other detector
\* result as it was
AddLoopLevel ==
    /\ args.tag = "signals"
    /\ ret # NoValue
    /\ ret.depth = args.sig.loop_depth
    /\ args.sig.loop_depth < DepthCap
    /\ args' = [args EXCEPT !.sig.loop_depth = @ + 1]
    /\ UNCHANGED <<callVars, ret>>

NextLoopDepth == ClassifyAtDepth \/ AddLoopLevel

SpecLoopDepth == InitLoopDepth /\ [][NextLoopDepth]_vars

(***************************************************************************)
(* Properties                                                              *)
(***************************************************************************)
\* the place of a class in the declaration of enum Complexity
Place(c) == CHOOSE i \in 1..Len(Complexity) : Complexity[i] = c

\* the class a report's Big-O string names
ClassOf(str) == CHOOSE c \in Classes : to_string(c) = str

\* the class of greatest rank among those of the reports fs ("Constant" for none)
RECURSIVE Worst(_)
Worst(fs) ==
    IF fs = <<>> THEN "Constant"
    ELSE LET rest == Worst(Tail(fs))
             c    == ClassOf(Head(fs).complexity)
         IN  IF order(c) >= order(rest) THEN c ELSE rest

HasDetail(report, text) == \E k \in 1..Len(report.details) : report.details[k].text = text

HasWarning(text) == \E k \in 1..Len(outcome.warnings) : outcome.warnings[k] = text

Returned == pc = "returned"

Reported == pc = "returned" /\ outcome.tag = "Ok"

\* the number of lines of the text of the call
CodeLines == NumLines(str_lines(code))

\* the language's own scan of the text found no function
NothingRecognised ==
    /\ CodeLines <= MaxScanLines
    /\ LanguageScan([language |-> language], Expand(str_lines(code))) = <<>>

\* C1: over all pairs and triples of the 9 classes, max is commutative,
\* associative and idempotent, its result is the operand of higher rank, and
\* order ranks the classes strictly in the order Constant < Logarithmic <
\* Linear < Linearithmic < Quadratic < Cubic < Polynomial < Exponential <
\* Factorial.
C1_MaxIsJoin ==
    ret.tag = "combined" =>
        /\ ret.ab = ret.ba
        /\ ret.ab_c = ret.a_bc
        /\ ret.aa = args.a
        /\ ret.ab \in {args.a, args.b}
        /\ order(ret.ab) >= order(args.a)
        /\ order(ret.ab) >= order(args.b)
        /\ (order(args.a) < order(args.b)) <=> (Place(args.a) < Place(args.b))

C1_Witness ==
    /\ ret.tag = "combined"
    /\ args.a = "Polynomial"
    /\ args.b = "Cubic"
    /\ args.c = "Exponential"
    /\ ret.ab = "Polynomial"
    /\ ret.ab_c = "Exponential"

\* C2: the overall class of a report is the class of greatest rank among its
\* function reports, and O(1) when the report has no function report.
C2_OverallIsJoin ==
    Reported =>
        /\ outcome.overall = to_string(Worst(outcome.functions))
        /\ outcome.functions = <<>> => outcome.overall = "O(1)"

C2_Witness ==
    /\ Reported
    /\ Len(outcome.functions) = 2
    /\ outcome.functions[1].complexity = "O(n)"
    /\ outcome.functions[2].complexity = "O(n^2)"
    /\ outcome.overall = "O(n^2)"

\* C3: a text of length 0 or of more than 500,000 characters is rejected with
\* no report and before an analyzer is built; a text of more than 100,000 and
\* at most 500,000 characters gets a report with overall O(1), no function and
\* exactly one warning; a text of 1 to 100,000 characters gets the report of
\* the full analysis, one function report per extracted span, never an error.
C3_SizeLimits ==
    LET size == str_len(code)
    IN  /\ (size = 0 \/ size > HardLimit) => analyzer = NoValue
        /\ Returned =>
            /\ (size = 0 \/ size > HardLimit) => outcome.tag = "Err"
            /\ (size > SoftLimit /\ size <= HardLimit) =>
                  /\ outcome.tag = "Ok"
                  /\ outcome.overall = "O(1)"
                  /\ outcome.functions = <<>>
                  /\ Len(outcome.warnings) = 1
            /\ (size > 0 /\ size <= SoftLimit) =>
                  /\ outcome.tag = "Ok"
                  /\ functions # <<>>
                  /\ Len(outcome.functions) = Len(functions)
                  /\ \A k \in 1..Len(functions) :
                        /\ outcome.functions[k].function = functions[k].name
                        /\ outcome.functions[k].line_start = functions[k].start_line

C3_Witness ==
    /\ Returned
    /\ str_len(code) = HardLimit
    /\ outcome.tag = "Ok"
    /\ outcome.functions = <<>>
    /\ Len(outcome.warnings) = 1

\* C4: two calls on the same text and language tag, each with an analyzer of
\* its own, return the same report, rationale entries in the same order.
C4_SameReportTwice == (Returned /\ calls = 2) => outcome = earlier

\* C5: extract_functions never returns an empty list; when the language's scan
\* recognises nothing in a text of at most 10,000 lines, it returns the one span
\* "main" from line 1 to the last line.
C5_NeverEmpty ==
    pc = "analyzing" =>
        /\ functions # <<>>
        /\ NothingRecognised =>
              /\ Len(functions) = 1
              /\ functions[1].name = Str_main
              /\ functions[1].start_line = 1
              /\ functions[1].end_line = CodeLines

C5_Witness ==
    /\ pc = "analyzing"
    /\ code = Written(ScenarioE)
    /\ Len(functions) = 1
    /\ functions[1].name = Str_main
    /\ functions[1].end_line = 2

\* C6: when no function is recognised in a text of at most 100,000
\* characters, the report holds the one function "main" and the warning that
\* no functions were detected.
C6_WarnsWhenNothingRecognised ==
    (Reported /\ str_len(code) <= SoftLimit /\ NothingRecognised) =>
        /\ Len(outcome.functions) = 1
        /\ outcome.functions[1].function = Str_main
        /\ HasWarning("No functions detected. Analyzing entire code as single block.")

\* C7: with every other detector result fixed, one more loop level never
\* lowers the class; the one exception is the step from depth 0 to depth 1
\* when the binary-search idiom fired.
C7_DepthMonotone ==
    (ret.tag = "classified" /\ ret.before # NoValue) =>
        \/ order(ret.now.complexity) >= order(ret.before.complexity)
        \/ ret.depth = 1 /\ args.sig.has_binary_search

C7_Witness ==
    /\ ret.tag = "classified"
    /\ ret.depth = 2
    /\ args.sig.has_binary_search
    /\ ret.before # NoValue
    /\ ret.before.complexity = "Logarithmic"
    /\ ret.now.complexity = "Quadratic"

\* C8: Scenario A (python) yields one function report, "f", of class O(n^2)
\* with confidence 0.85 and the rationale "Nested loops detected (depth: 2)";
\* f does not call itself, so the recursion branch did not run.
C8_ScenarioA ==
    (Reported /\ code = Written(ScenarioA) /\ language = Str_python) =>
        /\ Len(outcome.functions) = 1
        /\ outcome.functions[1].function = <<"f">>
        /\ outcome.functions[1].complexity = "O(n^2)"
        /\ outcome.functions[1].confidence = 85
        /\ HasDetail(outcome.functions[1], "Nested loops detected (depth: 2)")
        /\ ~HasDetail(outcome.functions[1], "Simple recursion detected")

\* C9: Scenario B (javascript), and the same function with the halving written
\* `>> 1`, is reported as bsearch of class O(log n) with confidence 0.9.
C9_ScenarioB ==
    (Reported /\ code \in {Written(ScenarioB), Written(ScenarioBShift)}
              /\ language = Str_javascript) =>
        /\ Len(outcome.functions) = 1
        /\ outcome.functions[1].function = <<"b", "s", "e", "a", "r", "c", "h">>
        /\ outcome.functions[1].complexity = "O(log n)"
        /\ outcome.functions[1].confidence = 90

\* C10: Scenario C (python) is reported as fib of class O(2^n) with confidence
\* 0.9 and the rationale of fibonacci-like recursion.
C10_ScenarioC ==
    (Reported /\ code = Written(ScenarioC) /\ language = Str_python) =>
        /\ Len(outcome.functions) = 1
        /\ outcome.functions[1].function = <<"f", "i", "b">>
        /\ outcome.functions[1].complexity = "O(2^n)"
        /\ outcome.functions[1].confidence = 90
        /\ HasDetail(outcome.functions[1], "Exponential recursion (fibonacci-like) detected")

\* the lines of the text of the call, written out (for at most 10,000 lines)
CodeText == Expand(str_lines(code))

IsPython == to_lowercase(language) = Str_python

\* the line is a function opener for the brace-family scan of the language
IsOpener(line) ==
    IF to_lowercase(language) \in {Str_javascript, Str_typescript}
    THEN extract_js_function_name(trim(line)) # <<>>
    ELSE extract_c_style_function_name(trim(line)) # <<>>

\* count of "{" minus count of "}" summed over the lines s..e
RECURSIVE Balance(_, _, _)
Balance(lines, s, e) ==
    IF e < s THEN 0 ELSE Balance(lines, s, e - 1) + BraceDelta(lines[e])

\* the end line C11 gives the span opened at line s: the first line from s on
\* at which the balance is zero or below, unless the next opener or the end of
\* the text comes first
ClaimedEnd(lines, s) ==
    LET openers == {o \in (s + 1)..Len(lines) : IsOpener(lines[o])}
        limit   == IF openers = {} THEN Len(lines) ELSE SetMin(openers) - 1
        closers == {e \in s..limit : Balance(lines, s, e) <= 0}
    IN  IF closers = {} THEN limit ELSE SetMin(closers)

\* C11: in the brace-family scans a span opened at line s ends at the first
\* line e >= s at which the brace balance over s..e is zero or below, unless a
\* new opener or the end of the text comes first; a function whose braces
\* balance on its opener line has end line = start line.
C11_SpanEndsAtBalance ==
    (pc = "analyzing" /\ ~IsPython /\ CodeLines <= MaxScanLines /\ ~NothingRecognised) =>
        \A k \in 1..Len(functions) :
            functions[k].end_line = ClaimedEnd(CodeText, functions[k].start_line)

\* the loop depth a function report tells of in its details
NotedDepth(report) ==
    IF HasDetail(report, "Single loop detected") THEN 1
    ELSE IF HasDetail(report, "Nested loops detected (depth: 2)") THEN 2
    ELSE IF HasDetail(report, "Triple nested loops detected") THEN 3
    ELSE IF HasDetail(report, "Deeply nested loops (depth: {})")
         THEN LET k == CHOOSE j \in 1..Len(report.details) :
                           report.details[j].text = "Deeply nested loops (depth: {})"
              IN  CHOOSE d \in 0..DepthCap : decimal(d) = report.details[k].arg
    ELSE 0

\* one line of the scan as C12 describes it: a loop start is counted first,
\* then a python line at the left margin ends all open blocks, and a line of
\* the brace family ends one block for each "}" it holds
ClaimedLoopStep(self, st, line) ==
    LET trimmed == trim(line)
        opened  == IF is_loop_start(self, trimmed) THEN st.current_depth + 1 ELSE st.current_depth
        deepest == IF opened > st.max_depth THEN opened ELSE st.max_depth
        margin  == line[1] \notin {" ", "\t"}
    IN  IF trimmed = <<>> \/ starts_with(trimmed, <<"/","/">>) \/ starts_with(trimmed, <<"#">>)
        THEN st
        ELSE [max_depth |-> deepest,
              current_depth |->
                  IF to_lowercase(self.language) = Str_python
                  THEN (IF margin THEN 0 ELSE opened)
                  ELSE saturating_sub(opened, count_char(line, "}"))]

RECURSIVE ClaimedLoopFold(_, _, _, _)
ClaimedLoopFold(self, ls, i, st) ==
    IF i > Len(ls) THEN st ELSE ClaimedLoopFold(self, ls, i + 1, ClaimedLoopStep(self, st, ls[i]))

\* the greatest depth of that scan over the first 1,000 lines, capped at 10
ClaimedLoopDepth(self, text) ==
    LET lines == str_lines(text)
        taken == Slice(lines, 0, Min2(NumLines(lines), LoopScanLines))
        st    == ClaimedLoopFold(self, taken.ls, 1, [max_depth |-> 0, current_depth |-> 0])
    IN  Min2(st.max_depth, DepthCap)

\* C12: the loop depth found for a function body is the greatest depth over
\* its first 1,000 lines, capped at 10, of a scan in which every loop start
\* adds one level, every non-blank, non-comment python line with no leading
\* whitespace resets the current depth to 0 (so a later loop start counts at
\* depth 1), and every brace-family line takes off one level for each "}",
\* never going below 0.
C12_DedentEndsAllBlocks ==
    pc = "analyzing" =>
        \A k \in 1..Len(function_results) :
            HasBody(functions[k], code) =>
                NotedDepth(function_results[k]) =
                    ClaimedLoopDepth(analyzer, FunctionBody(functions[k], code))

\* the text between "def " and the first "(" of a def line, trimmed: the name
\* C13 gives the span (<<>> where there is no "(" after the "def ")
ClaimedName(line) ==
    LET stripped  == trim_start(line)
        after_def == SubSeq(stripped, 5, Len(stripped))
        paren     == find(after_def, <<"(">>)
    IN  IF paren = -1 THEN <<>> ELSE trim(SubSeq(after_def, 1, paren))

IsDefLine(line) == starts_with(trim_start(line), Kw_def)

\* C13: for every python def line, at any indentation, whose text between
\* "def " and the first "(" is, trimmed, non-empty and shorter than 100
\* characters, a span starts at that line under exactly that name; a def line
\* whose name is empty or too long starts no span; and no span name holds "(".
C13_NameUpToParen ==
    (pc = "analyzing" /\ IsPython /\ CodeLines <= MaxScanLines) =>
        /\ \A i \in 1..Len(CodeText) :
               IsDefLine(CodeText[i]) =>
                   LET name == ClaimedName(CodeText[i])
                       here == {k \in 1..Len(functions) :
                                    functions[k].start_line = i /\ functions[k].name # Str_main}
                   IN  IF name # <<>> /\ Len(name) < NameLimit
                       THEN \E k \in here : functions[k].name = name
                       ELSE here = {}
        /\ \A k \in 1..Len(functions) : ~contains(functions[k].name, <<"(">>)

\* C14: for a text of at most 10,000 lines, in every language family, the
\* extracted spans are in source order, each has 1 <= start_line <= end_line
\* <= number of lines, and each starts strictly after the one before it ends;
\* so every span has a body and no function report says "Unable to analyze
\* function body".
C14_SpansOrderedAndDisjoint ==
    (pc = "analyzing" /\ CodeLines <= MaxScanLines) =>
        /\ \A k \in 1..Len(functions) :
               /\ 1 <= functions[k].start_line
               /\ functions[k].start_line <= functions[k].end_line
               /\ functions[k].end_line <= CodeLines
               /\ k > 1 => functions[k].start_line > functions[k - 1].end_line
               /\ HasBody(functions[k], code)
        /\ \A k \in 1..Len(function_results) :
               ~HasDetail(function_results[k], "Unable to analyze function body")

\* two spans, the second cut out right after the first, both analysed
C14_Witness ==
    /\ pc = "analyzing"
    /\ CodeLines <= MaxScanLines
    /\ Len(functions) = 2
    /\ functions[2].start_line = functions[1].end_line + 1
    /\ Len(function_results) = 2

====
